---- MODULE Spec2Model ----
(***************************************************************************)
(* Queue resolution and submission orchestration of CIME's EnvBatch        *)
(* (scripts/lib/CIME/XML/env_batch.py).                                    *)
(*                                                                         *)
(* Python's None is the empty sequence, a present value x is <<x>>.        *)
(* A call ends either in Ret(v) (a normal return) or in Fatal(m) (expect   *)
(* failed, or an exception left the method).                               *)
(***************************************************************************)
EXTENDS Integers, Sequences, FiniteSets, TLC

None == <<>>
Some(x) == <<x>>
Val(o) == o[1]

Ret(v) == [kind |-> "return", value |-> v]
Fatal(m) == [kind |-> "fatal", msg |-> m]

(***************************************************************************)
(* Bounds of the model.                                                    *)
(***************************************************************************)
MaxQueues == 2
MaxResubmit == 1

(***************************************************************************)
(* The queue catalog: the <queue> nodes of env_batch.xml in document       *)
(* order.  A node carries its text (the queue name) and its attributes.    *)
(* Walltimes are kept as their colon separated components:                 *)
(* "01:00:00" is <<1, 0, 0>>, "60:01" is <<60, 1>>.                        *)
(***************************************************************************)
QueueNames == <<"regular", "debug", "long", "big">>
UnknownQueue == "nosuch"

QueueShapes ==
  { [nodemin |-> None, nodemax |-> None, jobname |-> None, walltimemax |-> None,
     jobmin |-> None, jobmax |-> None, strict |-> None],
    [nodemin |-> None, nodemax |-> Some(1), jobname |-> None, walltimemax |-> None,
     jobmin |-> None, jobmax |-> None, strict |-> Some("true")],
    [nodemin |-> None, nodemax |-> None, jobname |-> None, walltimemax |-> Some(<<1, 0, 0>>),
     jobmin |-> Some(2), jobmax |-> None, strict |-> Some("true")],
    [nodemin |-> None, nodemax |-> None, jobname |-> None, walltimemax |-> Some(<<1, 0, 0>>),
     jobmin |-> None, jobmax |-> None, strict |-> Some("false")],
    [nodemin |-> None, nodemax |-> Some(1), jobname |-> Some("case.run"),
     walltimemax |-> Some(<<0, 30, 0>>), jobmin |-> None, jobmax |-> None, strict |-> Some("true")],
    [nodemin |-> Some(2), nodemax |-> None, jobname |-> None, walltimemax |-> None,
     jobmin |-> Some(2), jobmax |-> None, strict |-> None],
    [nodemin |-> Some(2), nodemax |-> None, jobname |-> None, walltimemax |-> Some(<<1, 0, 0>>),
     jobmin |-> None, jobmax |-> Some(1), strict |-> Some("true")],
    [nodemin |-> None, nodemax |-> Some(1), jobname |-> Some("case.test"), walltimemax |-> None,
     jobmin |-> None, jobmax |-> Some(1), strict |-> None],
    [nodemin |-> Some(2), nodemax |-> None, jobname |-> None, walltimemax |-> None,
     jobmin |-> None, jobmax |-> None, strict |-> Some("true")],
    [nodemin |-> None, nodemax |-> None, jobname |-> None, walltimemax |-> Some(<<0, 30, 0>>),
     jobmin |-> None, jobmax |-> Some(1), strict |-> Some("true")] }

QueueNode(i, shape, dflt) ==
  [text |-> QueueNames[i], default |-> dflt, nodemin |-> shape.nodemin,
   nodemax |-> shape.nodemax, jobname |-> shape.jobname, walltimemax |-> shape.walltimemax,
   jobmin |-> shape.jobmin, jobmax |-> shape.jobmax, strict |-> shape.strict]

Catalogs ==
  UNION { { [i \in 1..n |-> QueueNode(i, sh[i], df[i])] :
              sh \in [1..n -> QueueShapes], df \in [1..n -> {None, Some("true")}] } :
          n \in 0..MaxQueues }

NodeCounts == 1..2
TaskCounts == 1..2
Walltimes == {<<1, 0, 0>>, <<1, 0, 1>>, <<60, 1>>}
JobNames == {"case.run", "case.test"}

Requests ==
  [num_nodes : NodeCounts, num_tasks : TaskCounts,
   walltime : {None} \cup {Some(w) : w \in Walltimes},
   job : {None} \cup {Some(j) : j \in JobNames}]

(***************************************************************************)
(* The workflow: the job groups of env_batch.xml in document order         *)
(* (get_jobs), each with its prereq expression and its dependency list.    *)
(* An expression is kept as its blank separated tokens.                    *)
(***************************************************************************)
AllJobs == <<"case.run", "case.test", "case.st_archive">>

ExprBuild == <<"$BUILD_COMPLETE">>
ExprRun == <<"$BUILD_COMPLETE", "and", "not", "$TEST">>
ExprTest == <<"$BUILD_COMPLETE", "and", "$TEST">>
ExprArchive == <<"$DOUT_S">>
ExprBroken == <<"$PROJECT_REQUIRED", "and", "$BOGUS">>

Workflows ==
  { [prereq |-> [j \in {"case.run", "case.test", "case.st_archive"} |-> None],
     dependency |-> ("case.run" :> None @@ "case.test" :> Some(<<"case.run">>)
                      @@ "case.st_archive" :> None)],
    [prereq |-> ("case.run" :> Some(ExprRun) @@ "case.test" :> Some(ExprTest)
                  @@ "case.st_archive" :> Some(ExprArchive)),
     dependency |-> ("case.run" :> Some(<<"case.st_archive">>) @@ "case.test" :> None
                      @@ "case.st_archive" :> Some(<<"case.run", "case.test">>))],
    [prereq |-> ("case.run" :> Some(ExprBuild) @@ "case.test" :> None
                  @@ "case.st_archive" :> Some(ExprBuild)),
     dependency |-> ("case.run" :> None @@ "case.test" :> Some(<<"case.run">>)
                      @@ "case.st_archive" :> Some(<<"case.test">>))],
    [prereq |-> ("case.run" :> None @@ "case.test" :> Some(ExprBroken)
                  @@ "case.st_archive" :> Some(ExprBuild)),
     dependency |-> ("case.run" :> None @@ "case.test" :> None
                      @@ "case.st_archive" :> Some(<<"case.test">>))] }

BatchSystems == {"pbs", "cobalt", "none"}
UserPrereq == "900"
UnknownJob == "case.bogus"

VARIABLES
  catalog,       \* the <queue> nodes of env_batch.xml
  qcall,         \* the queue resolution call made, with its arguments
  qresult,       \* what that call ended in
  bstype,        \* the type of the <batch_system> node, also BATCH_SYSTEM
  workflow,      \* prereq and dependency of every job group
  casevals,      \* the case's values: RESUBMIT, BUILD_COMPLETE, TEST, DOUT_S
  batchtype,     \* self._batchtype
  pc,            \* where submit_jobs is: idle, submitting, returned, fatal
  args,          \* the arguments of the running submit_jobs call
  jobs,          \* submit_jobs' local jobs: the (job, dependency) pairs
  depid,         \* submit_jobs' local depid, in insertion order
  jobcmds,       \* submit_jobs' local jobcmds
  num_submit,    \* submit_jobs' local num_submit
  round,         \* rounds completed
  pos,           \* index in jobs of the next job of the round
  prev_job,      \* submit_jobs' local prev_job
  batch_job_id,  \* submit_jobs' local batch_job_id (unbound before the first job)
  subs,          \* history: the _submit_single_job calls of this submit_jobs call
  launched,      \* what this call executed: submit commands run, entry points called
  result,        \* what the last submit_jobs call ended in
  ghost          \* history: RESUBMIT and round count had no dry-run call been made

qvars == <<catalog, qcall, qresult>>
svars == <<bstype, workflow, casevals, batchtype, pc, args, jobs, depid, jobcmds,
           num_submit, round, pos, prev_job, batch_job_id, subs, launched, result, ghost>>
vars == <<qvars, svars>>

(***************************************************************************)
(* CIME.utils.convert_to_seconds: the components, last one first, weigh    *)
(* 60^0, 60^1, 60^2, ...                                                   *)
(***************************************************************************)
RECURSIVE convert_to_seconds(_)
convert_to_seconds(time_str) ==
  IF Len(time_str) = 0 THEN 0
  ELSE time_str[Len(time_str)]
       + 60 * convert_to_seconds(SubSeq(time_str, 1, Len(time_str) - 1))

(***************************************************************************)
(* get_all_queues: every <queue> node, in document order.                  *)
(***************************************************************************)
get_all_queues(cat) == cat

(***************************************************************************)
(* get_optional_child("queue", attributes, root): the first child that     *)
(* carries the attributes, or None.                                        *)
(***************************************************************************)
get_optional_child(cat, want_default) ==
  LET hits == { i \in 1..Len(cat) : (~want_default) \/ cat[i].default = Some("true") }
  IN IF hits = {} THEN None
     ELSE Some(cat[CHOOSE i \in hits : \A k \in hits : i <= k])

(***************************************************************************)
(* get_default_queue: the queue flagged default="true", else the first     *)
(* queue; fatal when there is none.                                        *)
(***************************************************************************)
get_default_queue(cat) ==
  LET flagged == get_optional_child(cat, TRUE)
      node == IF flagged = None THEN get_optional_child(cat, FALSE) ELSE flagged
  IN IF node = None THEN Fatal("No queues found") ELSE Ret(Val(node))

(***************************************************************************)
(* get_queue_specs: the specs of the first node whose text is the queue    *)
(* name; None when no node has that name; fatal when that node sets both   *)
(* nodemin and jobmin, or both nodemax and jobmax.                         *)
(***************************************************************************)
get_queue_specs_all_pairs(cat, queue) ==
  LET hits == { i \in 1..Len(get_all_queues(cat)) : get_all_queues(cat)[i].text = queue }
  IN IF hits = {} THEN Ret(None)
     ELSE LET queue_node == get_all_queues(cat)[CHOOSE i \in hits : \A k \in hits : i <= k]
          IN IF /\ (queue_node.nodemin # None \/ queue_node.nodemax # None)
                /\ (queue_node.jobmin # None \/ queue_node.jobmax # None)
               THEN Fatal("Cannot specify both nodemin and jobmin for a queue")
             ELSE Ret(Some([nodemin |-> queue_node.nodemin, nodemax |-> queue_node.nodemax,
                            jobname |-> queue_node.jobname,
                            walltimemax |-> queue_node.walltimemax,
                            jobmin |-> queue_node.jobmin, jobmax |-> queue_node.jobmax,
                            strict |-> (queue_node.strict = Some("true"))]))

get_queue_specs(cat, queue) ==
  LET hits == { i \in 1..Len(get_all_queues(cat)) : get_all_queues(cat)[i].text = queue }
  IN IF hits = {} THEN Ret(None)
     ELSE LET queue_node == get_all_queues(cat)[CHOOSE i \in hits : \A k \in hits : i <= k]
          IN IF ~(queue_node.nodemin = None \/ queue_node.jobmin = None)
               THEN Fatal("Cannot specify both nodemin and jobmin for a queue")
             ELSE IF ~(queue_node.nodemax = None \/ queue_node.jobmax = None)
               THEN Fatal("Cannot specify both nodemax and jobmax for a queue")
             ELSE Ret(Some([nodemin |-> queue_node.nodemin, nodemax |-> queue_node.nodemax,
                            jobname |-> queue_node.jobname,
                            walltimemax |-> queue_node.walltimemax,
                            jobmin |-> queue_node.jobmin, jobmax |-> queue_node.jobmax,
                            strict |-> (queue_node.strict = Some("true"))]))

(***************************************************************************)
(* queue_meets_spec(queue, num_nodes, num_tasks, walltime, job), in the    *)
(* order of its tests: an unknown queue meets every request; a job name    *)
(* and a jobname of the spec decide alone; then the node and task bounds;  *)
(* then the walltime of a strict queue.                                    *)
(***************************************************************************)
jobname_decides(specs, job) == job # None /\ specs.jobname # None

bounds_exceeded(specs, num_nodes, num_tasks) ==
  \/ (specs.nodemin # None /\ num_nodes < Val(specs.nodemin))
  \/ (specs.nodemax # None /\ num_nodes > Val(specs.nodemax))
  \/ (specs.jobmin # None /\ num_tasks < Val(specs.jobmin))
  \/ (specs.jobmax # None /\ num_tasks > Val(specs.jobmax))

walltime_exceeded_at_limit(specs, walltime) ==
  /\ walltime # None /\ specs.walltimemax # None /\ specs.strict
  /\ convert_to_seconds(Val(walltime)) >= convert_to_seconds(Val(specs.walltimemax))

walltime_exceeded_without_limit(specs, walltime) ==
  /\ walltime # None /\ specs.strict
  /\ \/ specs.walltimemax = None
     \/ convert_to_seconds(Val(walltime)) > convert_to_seconds(Val(specs.walltimemax))

walltime_exceeded(specs, walltime) ==
  /\ walltime # None /\ specs.walltimemax # None /\ specs.strict
  /\ convert_to_seconds(Val(walltime)) > convert_to_seconds(Val(specs.walltimemax))

meets_known_spec_bounds_first(specs, num_nodes, num_tasks, walltime, job) ==
  IF bounds_exceeded(specs, num_nodes, num_tasks) THEN Ret(FALSE)
  ELSE IF jobname_decides(specs, job) THEN Ret(Val(specs.jobname) = Val(job))
  ELSE IF walltime_exceeded(specs, walltime) THEN Ret(FALSE)
  ELSE Ret(TRUE)

meets_known_spec(specs, num_nodes, num_tasks, walltime, job) ==
  IF jobname_decides(specs, job) THEN Ret(Val(specs.jobname) = Val(job))
  ELSE IF bounds_exceeded(specs, num_nodes, num_tasks) THEN Ret(FALSE)
  ELSE IF walltime_exceeded(specs, walltime) THEN Ret(FALSE)
  ELSE Ret(TRUE)

queue_meets_spec_unknown_rejected(cat, queue, num_nodes, num_tasks, walltime, job) ==
  LET got == get_queue_specs(cat, queue)
  IN IF got.kind = "fatal" THEN got
     ELSE IF got.value = None THEN Ret(FALSE)
     ELSE meets_known_spec(Val(got.value), num_nodes, num_tasks, walltime, job)

queue_meets_spec(cat, queue, num_nodes, num_tasks, walltime, job) ==
  LET got == get_queue_specs(cat, queue)
  IN IF got.kind = "fatal" THEN got
     ELSE IF got.value = None THEN Ret(TRUE)
     ELSE meets_known_spec(Val(got.value), num_nodes, num_tasks, walltime, job)

(***************************************************************************)
(* _get_all_queue_names: the default queue's name, then every queue's      *)
(* name in document order (the default queue is listed a second time).     *)
(***************************************************************************)
get_all_queue_names_document_order(cat) ==
  LET dq == get_default_queue(cat)
  IN IF dq.kind = "fatal" THEN dq
     ELSE Ret([i \in 1..Len(get_all_queues(cat)) |-> get_all_queues(cat)[i].text])

get_all_queue_names(cat) ==
  LET dq == get_default_queue(cat)
  IN IF dq.kind = "fatal" THEN dq
     ELSE Ret(<<dq.value.text>> \o [i \in 1..Len(get_all_queues(cat)) |->
                                       get_all_queues(cat)[i].text])

(***************************************************************************)
(* select_best_queue: the first name of _get_all_queue_names that meets    *)
(* the spec, None when none does.                                          *)
(***************************************************************************)
RECURSIVE first_meeting(_, _, _, _, _, _)
first_meeting(cat, qnames, num_nodes, num_tasks, walltime, job) ==
  IF qnames = <<>> THEN Ret(None)
  ELSE LET m == queue_meets_spec(cat, Head(qnames), num_nodes, num_tasks, walltime, job)
       IN IF m.kind = "fatal" THEN m
          ELSE IF m.value THEN Ret(Some(Head(qnames)))
          ELSE first_meeting(cat, Tail(qnames), num_nodes, num_tasks, walltime, job)

select_best_queue(cat, num_nodes, num_tasks, walltime, job) ==
  LET qnames == get_all_queue_names(cat)
  IN IF qnames.kind = "fatal" THEN qnames
     ELSE first_meeting(cat, qnames.value, num_nodes, num_tasks, walltime, job)

(***************************************************************************)
(* Prerequisite expressions.  get_resolved_value replaces each $VAR token  *)
(* whose variable the resolving object knows by the text of its value; the *)
(* case resolves the variables of every env file, env_batch.xml only its   *)
(* own.  Python's eval is given for the expressions the workflows use:     *)
(* True and False joined by "and", each under any number of "not";         *)
(* anything else does not evaluate.                                        *)
(***************************************************************************)
CaseVars == {"$BUILD_COMPLETE", "$TEST", "$DOUT_S", "$PROJECT_REQUIRED"}
BatchVars == {"$PROJECT_REQUIRED"}

VarValue(tok, cv) ==
  CASE tok = "$BUILD_COMPLETE" -> cv.BUILD_COMPLETE
    [] tok = "$TEST" -> cv.TEST
    [] tok = "$DOUT_S" -> cv.DOUT_S
    [] tok = "$PROJECT_REQUIRED" -> cv.PROJECT_REQUIRED

get_resolved_value(expr, known, cv) ==
  [i \in 1..Len(expr) |->
     IF expr[i] \in known THEN (IF VarValue(expr[i], cv) THEN "True" ELSE "False")
     ELSE expr[i]]

RECURSIVE eval_not(_)
eval_not(toks) ==
  IF Len(toks) = 0 THEN Fatal("SyntaxError")
  ELSE IF toks[1] = "not"
    THEN LET v == eval_not(Tail(toks))
         IN IF v.kind = "fatal" THEN v ELSE Ret(~v.value)
  ELSE IF Len(toks) = 1 /\ toks[1] \in {"True", "False"} THEN Ret(toks[1] = "True")
  ELSE Fatal("SyntaxError")

RECURSIVE eval(_)
eval(toks) ==
  LET ands == { i \in 1..Len(toks) : toks[i] = "and" }
  IN IF ands = {} THEN eval_not(toks)
     ELSE LET a == CHOOSE i \in ands : \A k \in ands : i <= k
              l == eval_not(SubSeq(toks, 1, a - 1))
              r == eval(SubSeq(toks, a + 1, Len(toks)))
          IN IF l.kind = "fatal" THEN l
             ELSE IF r.kind = "fatal" THEN r
             ELSE Ret(l.value /\ r.value)

(***************************************************************************)
(* submit_jobs, the loop over alljobs that builds jobs: the jobs before    *)
(* startindex are passed over; a job is kept when it has no prereq, is the *)
(* job the caller named, its prereq is $BUILD_COMPLETE in a dry run, or    *)
(* its resolved prereq evaluates to true; under Cobalt the loop ends after *)
(* the first job it looks at.  The message of the fatal error carries the  *)
(* prereq as get_value returns it by default, that is resolved.            *)
(***************************************************************************)
IndexOf(seq, x) == CHOOSE i \in 1..Len(seq) : seq[i] = x /\ \A k \in 1..(i - 1) : seq[k] # x

prereq_holds_default_start(job, firstjob, dry_run, wf, cv) ==
  LET prereq == wf.prereq[job]
  IN IF \/ prereq = None
        \/ Some(job) = firstjob
        \/ (firstjob = None /\ job = AllJobs[1])
        \/ (dry_run /\ prereq = Some(ExprBuild))
       THEN Ret(TRUE)
     ELSE LET v == eval(get_resolved_value(Val(prereq), CaseVars, cv))
          IN IF v.kind = "fatal"
               THEN Fatal([text |-> "Unable to evaluate prereq expression",
                           expr |-> get_resolved_value(Val(prereq), BatchVars, cv),
                           job |-> job])
             ELSE v

prereq_holds(job, firstjob, dry_run, wf, cv) ==
  LET prereq == wf.prereq[job]
  IN IF prereq = None \/ Some(job) = firstjob \/ (dry_run /\ prereq = Some(ExprBuild))
       THEN Ret(TRUE)
     ELSE LET v == eval(get_resolved_value(Val(prereq), CaseVars, cv))
          IN IF v.kind = "fatal"
               THEN Fatal([text |-> "Unable to evaluate prereq expression",
                           expr |-> get_resolved_value(Val(prereq), BatchVars, cv),
                           job |-> job])
             ELSE v

RECURSIVE eligible_jobs(_, _, _, _, _, _, _, _)
eligible_jobs(index, acc, startindex, firstjob, dry_run, wf, cv, bt) ==
  IF index > Len(AllJobs) THEN Ret(acc)
  ELSE IF index < startindex
    THEN eligible_jobs(index + 1, acc, startindex, firstjob, dry_run, wf, cv, bt)
  ELSE LET job == AllJobs[index]
           prereq == prereq_holds(job, firstjob, dry_run, wf, cv)
       IN IF prereq.kind = "fatal" THEN prereq
          ELSE LET kept == IF prereq.value THEN Append(acc, <<job, wf.dependency[job]>>)
                           ELSE acc
               IN IF bt = Some("cobalt") THEN Ret(kept)
                  ELSE eligible_jobs(index + 1, kept, startindex, firstjob, dry_run,
                                     wf, cv, bt)

(***************************************************************************)
(* submit_jobs, num_submit: RESUBMIT + 1 and at least 1 when the caller    *)
(* asks for resubmit_immediate (RESUBMIT is then set to 0), else 1.        *)
(***************************************************************************)
rounds_for_no_minimum(resubmit_immediate, resubmit) ==
  IF resubmit_immediate THEN resubmit + 1 ELSE 1

rounds_for(resubmit_immediate, resubmit) ==
  IF resubmit_immediate THEN (IF resubmit + 1 <= 0 THEN 1 ELSE resubmit + 1) ELSE 1

resubmit_after(resubmit_immediate, resubmit) ==
  IF resubmit_immediate THEN 0 ELSE resubmit

(***************************************************************************)
(* depid, an OrderedDict: <<job, id>> pairs in insertion order.            *)
(***************************************************************************)
DictHas(d, k) == \E i \in 1..Len(d) : d[i][1] = k
DictGet(d, k) == d[CHOOSE i \in 1..Len(d) : d[i][1] = k][2]
DictSet(d, k, v) ==
  IF DictHas(d, k) THEN [i \in 1..Len(d) |-> IF d[i][1] = k THEN <<k, v>> ELSE d[i]]
  ELSE Append(d, <<k, v>>)

(***************************************************************************)
(* submit_jobs, dep_jobs of one submission: the user's prerequisite, the   *)
(* ids of the declared dependencies that have one, then prev_job.          *)
(***************************************************************************)
declared_ids_of_every_job(deps, d) ==
  LET F[i \in 0..Len(d)] ==
        IF i = 0 THEN <<>>
        ELSE IF d[i][2] # None THEN Append(F[i - 1], Val(d[i][2])) ELSE F[i - 1]
  IN F[Len(d)]

RECURSIVE declared_ids(_, _)
declared_ids(deps, d) ==
  IF deps = <<>> THEN <<>>
  ELSE (IF DictHas(d, Head(deps)) /\ DictGet(d, Head(deps)) # None
          THEN <<Val(DictGet(d, Head(deps)))>> ELSE <<>>)
       \o declared_ids(Tail(deps), d)

dep_jobs_chained(dependency, user_prereq, d, prev) ==
  LET deps == IF dependency # None THEN Val(dependency) ELSE <<>>
  IN (IF user_prereq # None THEN <<Val(user_prereq)>> ELSE <<>>)
     \o declared_ids(deps, d)
     \o (IF d # <<>> /\ d[Len(d)][2] # None THEN <<Val(d[Len(d)][2])>> ELSE <<>>)

dep_jobs_of(dependency, user_prereq, d, prev) ==
  LET deps == IF dependency # None THEN Val(dependency) ELSE <<>>
  IN (IF user_prereq # None THEN <<Val(user_prereq)>> ELSE <<>>)
     \o declared_ids(deps, d)
     \o (IF prev # None THEN <<Val(prev)>> ELSE <<>>)

\* prev_job = batch_job_id, after the loop over the jobs of a round
prev_job_dropped(id) == None

prev_job_after_round(id) == id

(***************************************************************************)
(* _get_supported_args and _build_run_args: the run arguments a job's      *)
(* script takes, and the caller's arguments filtered by them.  run_args is *)
(* the keyword arguments in the order they are passed.                     *)
(***************************************************************************)
supported_names_resubmit_for_run(job, no_batch) ==
  (IF job \in {"case.run", "case.test"} THEN {"skip_pnl"} ELSE {})
  \cup (IF job = "case.run" THEN {"set_continue_run"} ELSE {})
  \cup (IF job \in {"case.st_archive", "case.run"}
          THEN (IF no_batch THEN {"resubmit"} ELSE {"submit_resubmits"})
        ELSE {})

supported_names(job, no_batch) ==
  (IF job \in {"case.run", "case.test"} THEN {"skip_pnl"} ELSE {})
  \cup (IF job = "case.run" THEN {"set_continue_run"} ELSE {})
  \cup (IF job \in {"case.st_archive", "case.run"}
          THEN (IF job = "case.st_archive" /\ no_batch THEN {"resubmit"}
                ELSE {"submit_resubmits"})
        ELSE {})

get_supported_args(job, no_batch) ==
  [n \in supported_names(job, no_batch) |->
     CASE n = "skip_pnl" -> "--skip-preview-namelist"
       [] n = "set_continue_run" -> "--completion-sets-continue-run"
       [] n = "resubmit" -> "--resubmit"
       [] n = "submit_resubmits" -> "--resubmit"]

RECURSIVE build_run_args(_, _, _)
build_run_args(job, no_batch, run_args) ==
  IF run_args = <<>> THEN <<>>
  ELSE LET supported_args == get_supported_args(job, no_batch)
           arg_name == Head(run_args)[1]
           arg_value == Head(run_args)[2]
       IN (IF arg_value /\ arg_name \in DOMAIN supported_args
             THEN <<[name |-> arg_name, value |-> arg_value,
                     flag |-> supported_args[arg_name]]>>
           ELSE <<>>)
          \o build_run_args(job, no_batch, Tail(run_args))

\* " ".join(strings)
RECURSIVE JoinWith(_, _)
JoinWith(sep, strs) ==
  IF strs = <<>> THEN ""
  ELSE IF Len(strs) = 1 THEN strs[1]
  ELSE strs[1] \o sep \o JoinWith(sep, Tail(strs))

build_run_args_str(cfg, job, no_batch, run_args) ==
  LET found == build_run_args(job, no_batch, run_args)
      run_args_str == JoinWith(" ", [i \in 1..Len(found) |-> found[i].flag])
  IN IF cfg.batch_env = None THEN run_args_str
     ELSE Val(cfg.batch_env) \o " ARGS_FOR_SCRIPT='" \o run_args_str \o "'"

(***************************************************************************)
(* The settings of a batch system that _submit_single_job reads.  A        *)
(* depend string is kept in pieces, the piece "jobid" being the token that *)
(* is replaced.                                                            *)
(***************************************************************************)
BatchConfig(bs) ==
  [batch_submit |-> Some("qsub"),
   submit_args |-> <<"-q regular">>,
   command_flags |-> None,
   depend_string |-> IF bs = "cobalt" THEN Some(<<"--dependencies ", "jobid">>)
                     ELSE Some(<<"-W depend=afterok:", "jobid">>),
   depend_allow_string |-> IF bs = "cobalt" THEN None
                           ELSE Some(<<"-W depend=afterany:", "jobid">>),
   depend_separator |-> Some(":"),
   batch_mail_flag |-> Some("-M"),
   batch_mail_type_flag |-> IF bs = "cobalt" THEN None ELSE Some("-m"),
   batch_mail_type |-> <<"n", "abe", "b", "e", "a">>,
   batch_mail_default |-> None,
   main_mail_user |-> None,
   main_mail_type |-> None,
   test_mail_type |-> None,
   batch_redirect |-> None,
   batch_env |-> IF bs = "cobalt" THEN Some("--env") ELSE Some("-v")]

\* CIME.utils.get_batch_script_for_job
get_batch_script_for_job(job) ==
  CASE job = "case.run" -> ".case.run"
    [] job = "case.test" -> ".case.test"
    [] job = "case.st_archive" -> "case.st_archive"

\* job.replace(".", "_")
function_name(job) ==
  CASE job = "case.run" -> "case_run"
    [] job = "case.test" -> "case_test"
    [] job = "case.st_archive" -> "case_st_archive"

\* get_batch_mail_type: the entry of batch_mail_type at the place of the mail type
get_batch_mail_type(cfg, mail_type) ==
  LET idx == IndexOf(<<"never", "all", "begin", "end", "fail">>, mail_type)
  IN IF idx <= Len(cfg.batch_mail_type) THEN Some(cfg.batch_mail_type[idx]) ELSE None

\* dep_string.replace("jobid", dep_ids_str), and the pieces put together
RECURSIVE replace_jobid(_, _)
replace_jobid(dep_string, dep_ids_str) ==
  IF dep_string = <<>> THEN ""
  ELSE (IF Head(dep_string) = "jobid" THEN dep_ids_str ELSE Head(dep_string))
       \o replace_jobid(Tail(dep_string), dep_ids_str)

\* the dependency clause of the submit command: None without dependencies
depend_clause_no_fallback(cfg, dep_jobs, allow_fail) ==
  IF dep_jobs = None \/ Len(Val(dep_jobs)) = 0 THEN Ret(None)
  ELSE LET dep_string == IF allow_fail THEN cfg.depend_allow_string ELSE cfg.depend_string
       IN IF dep_string = None
            THEN Fatal("'depend_string' is not defined for this batch system")
          ELSE IF cfg.depend_separator = None
            THEN Fatal("depend_separator string not defined")
          ELSE IF \A i \in 1..Len(Val(dep_string)) : Val(dep_string)[i] # "jobid"
            THEN Fatal("depend_string is missing jobid for prerequisite jobs")
          ELSE Ret(Some(replace_jobid(Val(dep_string),
                                      JoinWith(Val(cfg.depend_separator), Val(dep_jobs)))))

depend_clause(cfg, dep_jobs, allow_fail) ==
  IF dep_jobs = None \/ Len(Val(dep_jobs)) = 0 THEN Ret(None)
  ELSE LET dep_string == IF allow_fail /\ cfg.depend_allow_string # None
                           THEN cfg.depend_allow_string
                         ELSE cfg.depend_string
       IN IF dep_string = None
            THEN Fatal("'depend_string' is not defined for this batch system")
          ELSE IF cfg.depend_separator = None
            THEN Fatal("depend_separator string not defined")
          ELSE IF \A i \in 1..Len(Val(dep_string)) : Val(dep_string)[i] # "jobid"
            THEN Fatal("depend_string is missing jobid for prerequisite jobs")
          ELSE Ret(Some(replace_jobid(Val(dep_string),
                                      JoinWith(Val(cfg.depend_separator), Val(dep_jobs)))))

\* the mail-user flag: the caller's address, else the one of the CIME config file
mail_user_clause(cfg, mail_user) ==
  LET user == IF mail_user = None THEN cfg.main_mail_user ELSE mail_user
  IN IF user # None /\ cfg.batch_mail_flag # None
       THEN Some(Val(cfg.batch_mail_flag) \o " " \o Val(user))
     ELSE None

\* the mail-type flags: "-m" takes the types run together, any other flag is
\* repeated for every type
mail_type_clause(cfg, job, mail_type) ==
  LET types == IF mail_type # None THEN mail_type
               ELSE IF job = "case.test" /\ cfg.test_mail_type # None THEN cfg.test_mail_type
               ELSE IF cfg.main_mail_type # None THEN cfg.main_mail_type
               ELSE cfg.batch_mail_default
  IN IF types = None \/ Val(types) = <<>> \/ cfg.batch_mail_type_flag = None THEN Ret(None)
     ELSE LET flag == Val(cfg.batch_mail_type_flag)
              targs == [i \in 1..Len(Val(types)) |-> get_batch_mail_type(cfg, Val(types)[i])]
          IN IF \E i \in 1..Len(targs) : targs[i] = None THEN Fatal("TypeError")
             ELSE LET strs == [i \in 1..Len(targs) |-> Val(targs[i])]
                  IN IF flag = "-m" THEN Ret(Some(flag \o " " \o JoinWith("", strs)))
                     ELSE Ret(Some(flag \o " " \o JoinWith(" " \o flag \o " ", strs)))

Present(opts) ==
  LET F[i \in 0..Len(opts)] ==
        IF i = 0 THEN <<>>
        ELSE IF opts[i] = None THEN F[i - 1] ELSE Append(F[i - 1], Val(opts[i]))
  IN F[Len(opts)]

(***************************************************************************)
(* _submit_single_job in batch mode, up to submitcmd.  a is the arguments  *)
(* of the call.                                                            *)
(***************************************************************************)
build_submit_cmd_mail_first(cfg, job, dep_jobs, a) ==
  LET flags == IF cfg.command_flags # None THEN Val(cfg.command_flags)
               ELSE JoinWith(" ", cfg.submit_args)
      dep == depend_clause(cfg, dep_jobs, a.allow_fail)
      mtype == mail_type_clause(cfg, job, a.mail_type)
  IN IF dep.kind = "fatal" THEN dep
     ELSE IF mtype.kind = "fatal" THEN mtype
     ELSE IF cfg.batch_submit = None
       THEN Fatal("Unable to determine the correct command for batch submission.")
     ELSE Ret(JoinWith(" ", Present(<<cfg.batch_submit, Some(flags), dep.value,
                                      mail_user_clause(cfg, a.mail_user), mtype.value,
                                      a.batch_args, cfg.batch_redirect,
                                      Some(get_batch_script_for_job(job))>>)))

build_submit_cmd(cfg, job, dep_jobs, a) ==
  LET flags == IF cfg.command_flags # None THEN Val(cfg.command_flags)
               ELSE JoinWith(" ", cfg.submit_args)
      dep == depend_clause(cfg, dep_jobs, a.allow_fail)
      mtype == mail_type_clause(cfg, job, a.mail_type)
  IN IF dep.kind = "fatal" THEN dep
     ELSE IF mtype.kind = "fatal" THEN mtype
     ELSE IF cfg.batch_submit = None
       THEN Fatal("Unable to determine the correct command for batch submission.")
     ELSE LET submitargs == JoinWith(" ", Present(<<Some(flags), dep.value, a.batch_args,
                                                     mail_user_clause(cfg, a.mail_user),
                                                     mtype.value>>))
              run_args == build_run_args_str(cfg, job, FALSE,
                            << <<"skip_pnl", a.skip_pnl>>,
                               <<"set_continue_run", a.resubmit_immediate>>,
                               <<"submit_resubmits", ~a.resubmit_immediate>> >>)
              sequence == IF cfg.batch_env # None
                            THEN <<cfg.batch_submit, Some(submitargs), Some(run_args),
                                   cfg.batch_redirect, Some(get_batch_script_for_job(job))>>
                          ELSE <<cfg.batch_submit, Some(submitargs), cfg.batch_redirect,
                                 Some(get_batch_script_for_job(job)), Some(run_args)>>
          IN Ret(JoinWith(" ", Present(sequence)))

(***************************************************************************)
(* _submit_single_job.  Without a batch system, or with no_batch, the      *)
(* job's entry point is called unless this is a dry run, and None is       *)
(* returned.  Otherwise the submit command is built; a dry run returns it, *)
(* a real run executes it and returns the job id read from its output.     *)
(* ok says whether what is executed succeeds, n how many ids the scheduler *)
(* has handed out.  The outcome is the value and what has been executed.   *)
(***************************************************************************)
submit_single_job_always_runs(bs, job, dep_jobs, a, ok, n) ==
  IF bs = "none" \/ a.no_batch
    THEN LET run_args == build_run_args(job, TRUE,
                           << <<"skip_pnl", a.skip_pnl>>,
                              <<"set_continue_run", a.resubmit_immediate>>,
                              <<"submit_resubmits", ~a.resubmit_immediate>> >>)
         IN [ret |-> IF ok THEN Ret(None) ELSE Fatal("job script failed"),
             executed |-> <<[kind |-> "entry_point", job |-> job,
                             what |-> function_name(job), run_args |-> run_args]>>]
  ELSE LET cmd == build_submit_cmd(BatchConfig(bs), job, dep_jobs, a)
       IN IF cmd.kind = "fatal" THEN [ret |-> cmd, executed |-> <<>>]
          ELSE IF a.dry_run THEN [ret |-> Ret(Some(cmd.value)), executed |-> <<>>]
          ELSE [ret |-> IF ok THEN Ret(Some(ToString(100 + n + 1)))
                        ELSE Fatal("submit command failed"),
                executed |-> <<[kind |-> "submit_command", job |-> job,
                                what |-> cmd.value, run_args |-> <<>>]>>]

submit_single_job(bs, job, dep_jobs, a, ok, n) ==
  IF bs = "none" \/ a.no_batch
    THEN IF a.dry_run THEN [ret |-> Ret(None), executed |-> <<>>]
         ELSE LET run_args == build_run_args(job, TRUE,
                                << <<"skip_pnl", a.skip_pnl>>,
                                   <<"set_continue_run", a.resubmit_immediate>>,
                                   <<"submit_resubmits", ~a.resubmit_immediate>> >>)
              IN [ret |-> IF ok THEN Ret(None) ELSE Fatal("job script failed"),
                  executed |-> <<[kind |-> "entry_point", job |-> job,
                                  what |-> function_name(job), run_args |-> run_args]>>]
  ELSE LET cmd == build_submit_cmd(BatchConfig(bs), job, dep_jobs, a)
       IN IF cmd.kind = "fatal" THEN [ret |-> cmd, executed |-> <<>>]
          ELSE IF a.dry_run THEN [ret |-> Ret(Some(cmd.value)), executed |-> <<>>]
          ELSE [ret |-> IF ok THEN Ret(Some(ToString(100 + n + 1)))
                        ELSE Fatal("submit command failed"),
                executed |-> <<[kind |-> "submit_command", job |-> job,
                                what |-> cmd.value, run_args |-> <<>>]>>]

(***************************************************************************)
(* The state of a submit_jobs call before it starts.                       *)
(***************************************************************************)
NoArgs == [job |-> None]
NoResult == [kind |-> "none"]
Unbound == [bound |-> FALSE]
Bound(v) == [bound |-> TRUE, value |-> v]

FreshLocals ==
  /\ jobs = <<>>
  /\ depid = <<>>
  /\ jobcmds = <<>>
  /\ num_submit = 0
  /\ round = 0
  /\ pos = 1
  /\ prev_job = None
  /\ batch_job_id = Unbound
  /\ subs = <<>>
  /\ launched = <<>>

(***************************************************************************)
(* Queue resolution as a state machine: a catalog is loaded, then the      *)
(* resolver is called on it.                                               *)
(***************************************************************************)
NoCall == [op |-> "none"]

InitQueue ==
  /\ catalog \in Catalogs
  /\ qcall = NoCall
  /\ qresult = Ret(None)
  /\ bstype = "none"
  /\ workflow = CHOOSE w \in Workflows : \A j \in DOMAIN w.prereq : w.prereq[j] = None
  /\ casevals = [RESUBMIT |-> 0, BUILD_COMPLETE |-> FALSE, TEST |-> FALSE,
                 DOUT_S |-> FALSE, PROJECT_REQUIRED |-> FALSE]
  /\ batchtype = None
  /\ pc = "idle"
  /\ args = NoArgs
  /\ result = NoResult
  /\ ghost = [resubmit |-> 0, rounds |-> 0]
  /\ FreshLocals

QueueMeetsSpec ==
  /\ qcall = NoCall
  /\ \E r \in Requests :
    \E queue \in {catalog[i].text : i \in 1..Len(catalog)} \cup {UnknownQueue} :
      /\ qcall' = [op |-> "queue_meets_spec", queue |-> queue, req |-> r]
      /\ qresult' = queue_meets_spec(catalog, queue, r.num_nodes, r.num_tasks,
                                     r.walltime, r.job)
      /\ UNCHANGED <<catalog, svars>>

SelectBestQueue ==
  /\ qcall = NoCall
  /\ \E r \in Requests :
    /\ qcall' = [op |-> "select_best_queue", req |-> r]
    /\ qresult' = select_best_queue(catalog, r.num_nodes, r.num_tasks, r.walltime, r.job)
    /\ UNCHANGED <<catalog, svars>>

NextQueue == QueueMeetsSpec \/ SelectBestQueue

SpecQueue == InitQueue /\ [][NextQueue]_vars

(***************************************************************************)
(* Submission as a state machine.  submit_jobs runs in steps: the call up  *)
(* to the first round (SubmitJobs), one step for every job of a round      *)
(* (SubmitNextJob), the end of a round (EndRound) and the return           *)
(* (ReturnFromSubmitJobs).  A fatal error ends the process.                *)
(***************************************************************************)
Init ==
  /\ catalog = <<>>
  /\ qcall = NoCall
  /\ qresult = Ret(None)
  /\ bstype \in BatchSystems
  /\ workflow \in Workflows
  /\ casevals \in [RESUBMIT : (-1)..MaxResubmit, BUILD_COMPLETE : BOOLEAN, TEST : {FALSE},
                   DOUT_S : {TRUE}, PROJECT_REQUIRED : {FALSE}]
  /\ batchtype = None
  /\ pc = "idle"
  /\ args = NoArgs
  /\ result = NoResult
  /\ ghost = [resubmit |-> casevals.RESUBMIT, rounds |-> 0]
  /\ FreshLocals

\* get_batch_system_type: self._batchtype becomes the type of the batch system
GetBatchSystemType ==
  /\ pc \in {"idle", "returned"}
  /\ batchtype # Some(bstype)
  /\ batchtype' = Some(bstype)
  /\ UNCHANGED <<qvars, bstype, workflow, casevals, pc, args, jobs, depid, jobcmds,
                 num_submit, round, pos, prev_job, batch_job_id, subs, launched, result,
                 ghost>>

CallArgs ==
  [job : {None} \cup {Some(AllJobs[i]) : i \in 1..Len(AllJobs)} \cup {Some(UnknownJob)},
   no_batch : BOOLEAN, dry_run : BOOLEAN, resubmit_immediate : BOOLEAN,
   user_prereq : {None, Some(UserPrereq)},
   skip_pnl : {FALSE}, allow_fail : {FALSE}, mail_user : {None}, mail_type : {None},
   batch_args : {None}]

\* submit_jobs up to "prev_job = None": the jobs to submit and the number of rounds
SubmitJobs ==
  /\ pc \in {"idle", "returned"}
  /\ \E a \in CallArgs :
       /\ args' = a
       /\ depid' = <<>>
       /\ jobcmds' = <<>>
       /\ round' = 0
       /\ pos' = 1
       /\ prev_job' = None
       /\ batch_job_id' = Unbound
       /\ subs' = <<>>
       /\ launched' = <<>>
       /\ IF a.job # None /\ \A i \in 1..Len(AllJobs) : AllJobs[i] # Val(a.job)
            THEN /\ pc' = "fatal"
                 /\ result' = Fatal([text |-> "Do not know about batch job",
                                     job |-> Val(a.job)])
                 /\ jobs' = <<>>
                 /\ num_submit' = 0
                 /\ UNCHANGED <<casevals, ghost>>
          ELSE LET startindex == IF a.job # None THEN IndexOf(AllJobs, Val(a.job)) ELSE 1
                   planned == eligible_jobs(1, <<>>, startindex, a.job, a.dry_run,
                                            workflow, casevals, batchtype)
               IN IF planned.kind = "fatal"
                    THEN /\ pc' = "fatal"
                         /\ result' = planned
                         /\ jobs' = <<>>
                         /\ num_submit' = 0
                         /\ UNCHANGED <<casevals, ghost>>
                  ELSE /\ pc' = "submitting"
                       /\ result' = NoResult
                       /\ jobs' = planned.value
                       /\ num_submit' = rounds_for(a.resubmit_immediate, casevals.RESUBMIT)
                       /\ casevals' = [casevals EXCEPT
                                         !.RESUBMIT = resubmit_after(a.resubmit_immediate, @)]
                       /\ ghost' = [resubmit |-> IF a.dry_run THEN ghost.resubmit
                                                 ELSE resubmit_after(a.resubmit_immediate,
                                                                     ghost.resubmit),
                                    rounds |-> rounds_for(a.resubmit_immediate,
                                                          ghost.resubmit)]
  /\ UNCHANGED <<qvars, bstype, workflow, batchtype>>

\* one pass of the loop "for job, dependency in jobs"
SubmitNextJob ==
  /\ pc = "submitting"
  /\ round < num_submit
  /\ pos <= Len(jobs)
  /\ LET job == jobs[pos][1]
         dep_jobs == dep_jobs_of(jobs[pos][2], args.user_prereq, depid, prev_job)
     IN \E ok \in BOOLEAN :
          LET out == submit_single_job(bstype, job, Some(dep_jobs), args, ok,
                                       Len(launched))
          IN /\ ok \/ out.executed # <<>>
             /\ launched' = launched \o out.executed
             /\ subs' = Append(subs, [job |-> job, dep_jobs |-> dep_jobs, round |-> round,
                                      ret |-> out.ret,
                                      id |-> IF out.ret.kind = "fatal" THEN None
                                             ELSE IF args.dry_run
                                               THEN Some(ToString(IndexOf(AllJobs, job) - 1))
                                             ELSE out.ret.value])
             /\ IF out.ret.kind = "fatal"
                  THEN /\ pc' = "fatal"
                       /\ result' = out.ret
                       /\ UNCHANGED <<depid, jobcmds, pos, batch_job_id>>
                ELSE LET id == IF args.dry_run
                                 THEN Some(ToString(IndexOf(AllJobs, job) - 1))
                               ELSE out.ret.value
                     IN /\ batch_job_id' = Bound(id)
                        /\ depid' = DictSet(depid, job, id)
                        /\ jobcmds' = Append(jobcmds, <<job, out.ret.value>>)
                        /\ pos' = IF batchtype = Some("cobalt") THEN Len(jobs) + 1
                                  ELSE pos + 1
                        /\ UNCHANGED <<pc, result>>
  /\ UNCHANGED <<qvars, bstype, workflow, casevals, batchtype, args, jobs, num_submit,
                 round, prev_job, ghost>>

\* after the loop over the jobs of a round: prev_job = batch_job_id
EndRound ==
  /\ pc = "submitting"
  /\ round < num_submit
  /\ pos > Len(jobs)
  /\ IF batch_job_id.bound
       THEN /\ prev_job' = prev_job_after_round(batch_job_id.value)
            /\ round' = round + 1
            /\ pos' = 1
            /\ UNCHANGED <<pc, result>>
     ELSE /\ pc' = "fatal"
          /\ result' = Fatal([text |-> "UnboundLocalError", name |-> "batch_job_id"])
          /\ UNCHANGED <<prev_job, round, pos>>
  /\ UNCHANGED <<qvars, bstype, workflow, casevals, batchtype, args, jobs, depid, jobcmds,
                 num_submit, batch_job_id, subs, launched, ghost>>

\* "return jobcmds" in a dry run, else "return depid"
ReturnFromSubmitJobs ==
  /\ pc = "submitting"
  /\ round = num_submit
  /\ pc' = "returned"
  /\ result' = Ret(IF args.dry_run THEN jobcmds ELSE depid)
  /\ UNCHANGED <<qvars, bstype, workflow, casevals, batchtype, args, jobs, depid, jobcmds,
                 num_submit, round, pos, prev_job, batch_job_id, subs, launched, ghost>>

Next ==
  \/ GetBatchSystemType
  \/ SubmitJobs
  \/ SubmitNextJob
  \/ EndRound
  \/ ReturnFromSubmitJobs

Spec == Init /\ [][Next]_vars

(***************************************************************************)
(* Properties of queue resolution (checked under SpecQueue).               *)
(***************************************************************************)
Req == qcall.req

CatalogNames == {catalog[i].text : i \in 1..Len(catalog)}

NodeNamed(q) == catalog[CHOOSE i \in 1..Len(catalog) : catalog[i].text = q]

\* the queue meets the request: queue_meets_spec returns True
Meets(q) ==
  LET m == queue_meets_spec(catalog, q, Req.num_nodes, Req.num_tasks, Req.walltime, Req.job)
  IN m.kind = "return" /\ m.value

\* the two pairs of bounds get_queue_specs refuses
Clash(node) ==
  \/ (node.nodemin # None /\ node.jobmin # None)
  \/ (node.nodemax # None /\ node.jobmax # None)

\* a node bound together with a task bound, in any of the four combinations
NodeAndTaskBound(node) ==
  /\ (node.nodemin # None \/ node.nodemax # None)
  /\ (node.jobmin # None \/ node.jobmax # None)

CatalogLoads == Len(catalog) > 0 /\ \A i \in 1..Len(catalog) : ~Clash(catalog[i])

DefaultIndex ==
  IF \E i \in 1..Len(catalog) : catalog[i].default = Some("true")
  THEN CHOOSE i \in 1..Len(catalog) :
         /\ catalog[i].default = Some("true")
         /\ \A k \in 1..(i - 1) : catalog[k].default # Some("true")
  ELSE 1

DefaultName == catalog[DefaultIndex].text

WithinBounds(node, r) ==
  /\ (node.nodemin = None \/ r.num_nodes >= Val(node.nodemin))
  /\ (node.nodemax = None \/ r.num_nodes <= Val(node.nodemax))
  /\ (node.jobmin = None \/ r.num_tasks >= Val(node.jobmin))
  /\ (node.jobmax = None \/ r.num_tasks <= Val(node.jobmax))

\* C1: select_best_queue returns the first queue name, default queue first and
\* then declaration order, that meets the spec; None exactly when no catalog
\* queue meets it; the default queue whenever the default queue meets it.  On a
\* catalog whose specs all load it always returns.
C1_SelectBestQueueDefaultFirst ==
  qcall.op = "select_best_queue" =>
    /\ CatalogLoads => qresult.kind = "return"
    /\ qresult.kind = "return" =>
         /\ Meets(DefaultName) => qresult.value = Some(DefaultName)
         /\ (qresult.value = None) <=> (\A q \in CatalogNames : ~Meets(q))
         /\ qresult.value # None =>
              \E i \in 1..Len(catalog) :
                /\ catalog[i].text = Val(qresult.value)
                /\ Meets(catalog[i].text)
                /\ \/ i = DefaultIndex
                   \/ /\ ~Meets(DefaultName)
                      /\ \A k \in 1..(i - 1) : ~Meets(catalog[k].text)

C1_Witness ==
  /\ qcall.op = "select_best_queue"
  /\ qresult.kind = "return"
  /\ DefaultIndex > 1
  /\ Meets(catalog[1].text)
  /\ qresult.value = Some(DefaultName)

\* C6: queue_meets_spec returns True for every queue name the catalog has no
\* specification for, whatever the request.
C6_UnknownQueueMeetsSpec ==
  (qcall.op = "queue_meets_spec" /\ qcall.queue \notin CatalogNames) => qresult = Ret(TRUE)

C6_Witness ==
  /\ qcall.op = "queue_meets_spec"
  /\ qcall.queue \notin CatalogNames
  /\ Len(catalog) > 0
  /\ Req.walltime # None
  /\ \A q \in CatalogNames : ~Meets(q)
  /\ qresult = Ret(TRUE)

\* C7: for a catalog queue whose spec declares a jobname and a call that
\* passes a job name, the result is True exactly when the two names are
\* equal, whatever the bounds, walltimemax and strict flag of the spec.
C7_JobNameDecides ==
  ( /\ qcall.op = "queue_meets_spec"
    /\ qcall.queue \in CatalogNames
    /\ Req.job # None
    /\ NodeNamed(qcall.queue).jobname # None ) =>
      /\ ~Clash(NodeNamed(qcall.queue)) => qresult.kind = "return"
      /\ qresult.kind = "return" =>
           qresult.value = (Val(NodeNamed(qcall.queue).jobname) = Val(Req.job))

C7_Witness ==
  /\ qcall.op = "queue_meets_spec"
  /\ qcall.queue \in CatalogNames
  /\ Req.job # None
  /\ NodeNamed(qcall.queue).jobname = Req.job
  /\ ~WithinBounds(NodeNamed(qcall.queue), Req)
  /\ NodeNamed(qcall.queue).strict = Some("true")
  /\ Req.walltime = Some(<<1, 0, 1>>)
  /\ NodeNamed(qcall.queue).walltimemax = Some(<<0, 30, 0>>)
  /\ qresult = Ret(TRUE)

\* C8: without a jobname decision and within the node and task bounds,
\* queue_meets_spec with a walltime returns False exactly when the queue is
\* strict, has a walltimemax, and the walltime in seconds is strictly greater
\* than walltimemax in seconds.
C8_StrictWalltime ==
  ( /\ qcall.op = "queue_meets_spec"
    /\ qcall.queue \in CatalogNames
    /\ ~Clash(NodeNamed(qcall.queue))
    /\ (Req.job = None \/ NodeNamed(qcall.queue).jobname = None)
    /\ WithinBounds(NodeNamed(qcall.queue), Req)
    /\ Req.walltime # None ) =>
      LET node == NodeNamed(qcall.queue)
          too_long == /\ node.strict = Some("true")
                      /\ node.walltimemax # None
                      /\ convert_to_seconds(Val(Req.walltime))
                           > convert_to_seconds(Val(node.walltimemax))
      IN qresult = Ret(~too_long)

C8_Witness ==
  /\ qcall.op = "queue_meets_spec"
  /\ qcall.queue \in CatalogNames
  /\ ~Clash(NodeNamed(qcall.queue))
  /\ (Req.job = None \/ NodeNamed(qcall.queue).jobname = None)
  /\ WithinBounds(NodeNamed(qcall.queue), Req)
  /\ NodeNamed(qcall.queue).strict = Some("true")
  /\ NodeNamed(qcall.queue).walltimemax = Some(<<1, 0, 0>>)
  /\ Req.walltime = Some(<<1, 0, 0>>)
  /\ qresult = Ret(TRUE)

\* C9 as claimed: a catalog that holds a spec with a node bound and a task
\* bound, in any combination, lets no queue resolution return normally.
C9_Claim_RejectedAtLoad ==
  ( /\ qcall.op # "none"
    /\ \E i \in 1..Len(catalog) : NodeAndTaskBound(catalog[i]) ) => qresult.kind = "fatal"

\* the names select_best_queue examines, in its order
ScanOrder == <<DefaultName>> \o [i \in 1..Len(catalog) |-> catalog[i].text]

\* C9 as amended: the specs are checked when they are read, not when the
\* catalog is loaded, and only nodemin with jobmin and nodemax with jobmax are
\* refused: queue_meets_spec is fatal exactly for a catalog queue with such a
\* pair, and select_best_queue is fatal exactly when it comes to such a queue
\* before a queue that meets the spec (or when there is no queue at all).
C9_FatalWhenSpecsAreRead ==
  /\ qcall.op = "queue_meets_spec" =>
       ( qresult.kind = "fatal" <=>
           (qcall.queue \in CatalogNames /\ Clash(NodeNamed(qcall.queue))) )
  /\ qcall.op = "select_best_queue" =>
       ( qresult.kind = "fatal" <=>
           \/ Len(catalog) = 0
           \/ \E p \in 1..Len(ScanOrder) :
                /\ Clash(NodeNamed(ScanOrder[p]))
                /\ \A k \in 1..(p - 1) : ~Clash(NodeNamed(ScanOrder[k])) /\ ~Meets(ScanOrder[k]) )

C9_Witness ==
  /\ qcall.op = "select_best_queue"
  /\ qresult.kind = "fatal"
  /\ Len(catalog) > 1
  /\ NodeAndTaskBound(NodeNamed(ScanOrder[1]))
  /\ ~Clash(NodeNamed(ScanOrder[1]))
  /\ ~Meets(ScanOrder[1])

(***************************************************************************)
(* Properties of submit_jobs (checked under Spec).                         *)
(***************************************************************************)
Range(seq) == {seq[i] : i \in 1..Len(seq)}

Called == pc # "idle"

\* the names a job declares as its dependencies
Declared(job) ==
  IF workflow.dependency[job] = None THEN <<>> ELSE Val(workflow.dependency[job])

\* the ids of the declared dependencies of submission k submitted before it
RECURSIVE EarlierIds(_, _)
EarlierIds(names, k) ==
  IF names = <<>> THEN <<>>
  ELSE LET before == { j \in 1..(k - 1) : subs[j].job = Head(names) /\ subs[j].id # None }
       IN (IF before = {} THEN <<>>
           ELSE <<Val(subs[CHOOSE j \in before : \A i \in before : i <= j].id)>>)
          \o EarlierIds(Tail(names), k)

UserPart == IF args.user_prereq = None THEN <<>> ELSE <<Val(args.user_prereq)>>

InWorkflowOrder ==
  \A k \in 2..Len(subs) :
    subs[k].round = subs[k - 1].round =>
      IndexOf(AllJobs, subs[k - 1].job) < IndexOf(AllJobs, subs[k].job)

\* C2 as claimed: in a single round under a batch system other than Cobalt the
\* jobs go out in workflow order and every job after the first carries the id
\* of the submission just before it.
C2_Claim_ChainedWithinRound ==
  (Called /\ num_submit = 1 /\ bstype # "cobalt") =>
    /\ InWorkflowOrder
    /\ \A k \in 2..Len(subs) :
         subs[k - 1].id # None => Val(subs[k - 1].id) \in Range(subs[k].dep_jobs)

\* C2 as amended: in a single round under a batch system other than Cobalt the
\* jobs go out in workflow order, and the dependency ids of a job are the
\* user's prerequisite followed by the ids of the jobs it declares that went
\* out before it: the id of the submission just before it is there only when
\* that job is declared.
C2_DeclaredOnlyWithinRound ==
  (Called /\ num_submit = 1 /\ batchtype # Some("cobalt")) =>
    /\ InWorkflowOrder
    /\ \A k \in 1..Len(subs) :
         /\ subs[k].dep_jobs = UserPart \o EarlierIds(Declared(subs[k].job), k)
         /\ \A j \in 1..(k - 1) :
              subs[j].id # None =>
                ( Val(subs[j].id) \in Range(subs[k].dep_jobs)
                    <=> subs[j].job \in Range(Declared(subs[k].job)) )

C2_Witness ==
  /\ pc = "returned"
  /\ num_submit = 1
  /\ bstype = "pbs"
  /\ ~args.dry_run /\ ~args.no_batch /\ args.user_prereq = None
  /\ Len(subs) = 3
  /\ Declared(subs[2].job) = <<subs[1].job>>
  /\ Declared(subs[3].job) = <<>>
  /\ subs[2].dep_jobs = <<Val(subs[1].id)>>
  /\ subs[3].dep_jobs = <<>>

\* C3: with two or more rounds, the first job of a round carries the id that
\* the last submission of the round before returned.
C3_RoundsSerialized ==
  \A k \in 2..Len(subs) :
    (subs[k].round = subs[k - 1].round + 1 /\ subs[k - 1].id # None) =>
      Val(subs[k - 1].id) \in Range(subs[k].dep_jobs)

C3_Witness ==
  /\ pc = "returned"
  /\ bstype = "pbs"
  /\ ~args.dry_run /\ ~args.no_batch /\ args.user_prereq = None
  /\ num_submit = 2
  /\ \E k \in 2..Len(subs) :
       /\ subs[k].round = 1 /\ subs[k - 1].round = 0
       /\ Declared(subs[k].job) = <<>>
       /\ subs[k - 1].id = Some("103")
       /\ subs[k].dep_jobs = <<"103">>

\* C4 as claimed: a real call that follows dry-run calls makes the number of
\* rounds it would have made had the dry-run calls not been made.
C4_Claim_DryRunLeavesRounds ==
  (pc = "submitting" /\ ~args.dry_run) => num_submit = ghost.rounds

\* C5 as claimed: a dry run executes nothing and returns one (job, command
\* string) pair for every planned submission, in submission order.
C5_Claim_DryRunCommandStrings ==
  (Called /\ args.dry_run) =>
    /\ launched = <<>>
    /\ pc = "returned" =>
         /\ Len(result.value) = Len(subs)
         /\ \A k \in 1..Len(subs) :
              /\ result.value[k][1] = subs[k].job
              /\ result.value[k][2] # None

\* C5 as amended: a dry run executes nothing, and when it returns it returns
\* one pair for every planned submission (every eligible job in every round),
\* in submission order; the second component is the submit command when there
\* is a batch system and no_batch is not set, and None otherwise.
C5_DryRunExecutesNothing ==
  (Called /\ args.dry_run) =>
    /\ launched = <<>>
    /\ pc = "returned" =>
         /\ result.kind = "return"
         /\ Len(result.value) = num_submit * Len(jobs)
         /\ Len(result.value) = Len(subs)
         /\ \A k \in 1..Len(subs) :
              /\ result.value[k][1] = subs[k].job
              /\ result.value[k][1] = jobs[((k - 1) % Len(jobs)) + 1][1]
              /\ result.value[k][2] = subs[k].ret.value
              /\ (result.value[k][2] = None) <=> (bstype = "none" \/ args.no_batch)

C5_Witness ==
  /\ pc = "returned"
  /\ args.dry_run
  /\ args.no_batch
  /\ bstype = "pbs"
  /\ Len(result.value) = 6
  /\ \A k \in 1..Len(result.value) : result.value[k][2] = None
  /\ launched = <<>>

\* the jobs whose prereq submit_jobs evaluates, and those whose evaluation fails
StartIndex == IF args.job = None THEN 1 ELSE IndexOf(AllJobs, Val(args.job))

Evaluated(i) ==
  /\ i >= StartIndex
  /\ (batchtype = Some("cobalt") => i = StartIndex)
  /\ workflow.prereq[AllJobs[i]] # None
  /\ Some(AllJobs[i]) # args.job
  /\ ~(args.dry_run /\ workflow.prereq[AllJobs[i]] = Some(ExprBuild))

EvaluationFails(i) ==
  /\ Evaluated(i)
  /\ eval(get_resolved_value(Val(workflow.prereq[AllJobs[i]]), CaseVars, casevals)).kind
       = "fatal"

\* C10 as claimed: when the evaluation of a candidate's prereq fails the call
\* ends in a fatal error that names the job and the unresolved expression, and
\* nothing has been submitted or executed.
C10_Claim_PrereqErrorNamesRawExpression ==
  ( /\ Called
    /\ args.job = None \/ Val(args.job) \in Range(AllJobs)
    /\ \E i \in 1..Len(AllJobs) : EvaluationFails(i) ) =>
      LET first == CHOOSE i \in 1..Len(AllJobs) :
                     EvaluationFails(i) /\ \A k \in 1..(i - 1) : ~EvaluationFails(k)
      IN /\ pc = "fatal"
         /\ result.kind = "fatal"
         /\ result.msg.text = "Unable to evaluate prereq expression"
         /\ result.msg.job = AllJobs[first]
         /\ result.msg.expr = Val(workflow.prereq[AllJobs[first]])
         /\ subs = <<>>
         /\ launched = <<>>

\* the rest of C10, which the code keeps: the fatal error, the job it names and
\* nothing submitted
PrereqErrorAborts ==
  ( /\ Called
    /\ args.job = None \/ Val(args.job) \in Range(AllJobs)
    /\ \E i \in 1..Len(AllJobs) : EvaluationFails(i) ) =>
      LET first == CHOOSE i \in 1..Len(AllJobs) :
                     EvaluationFails(i) /\ \A k \in 1..(i - 1) : ~EvaluationFails(k)
      IN /\ pc = "fatal"
         /\ result.kind = "fatal"
         /\ result.msg.text = "Unable to evaluate prereq expression"
         /\ result.msg.job = AllJobs[first]
         /\ subs = <<>>
         /\ launched = <<>>

(***************************************************************************)
(* _build_run_args on its own: the job names and keyword arguments it is   *)
(* called with.  The keyword arguments are a subsequence of RunArgNames    *)
(* with a truthy or falsy value each.                                      *)
(***************************************************************************)
RunArgJobs == {"case.run", "case.test", "case.st_archive", "case.build", ""}
RunArgNames == <<"skip_pnl", "set_continue_run", "resubmit", "submit_resubmits", "cthulu">>

RunArgLists ==
  LET pick(f) ==
        LET F[i \in 0..Len(RunArgNames)] ==
              IF i = 0 THEN <<>>
              ELSE IF f[i] = "absent" THEN F[i - 1]
              ELSE Append(F[i - 1], <<RunArgNames[i], f[i] = "truthy">>)
        IN F[Len(RunArgNames)]
  IN { pick(f) : f \in [1..Len(RunArgNames) -> {"absent", "truthy", "falsy"}] }

InitRunArgs ==
  /\ catalog = <<>>
  /\ qcall = NoCall
  /\ qresult = Ret(None)
  /\ bstype = "none"
  /\ workflow = CHOOSE w \in Workflows : \A j \in DOMAIN w.prereq : w.prereq[j] = None
  /\ casevals = [RESUBMIT |-> 0, BUILD_COMPLETE |-> FALSE, TEST |-> FALSE,
                 DOUT_S |-> FALSE, PROJECT_REQUIRED |-> FALSE]
  /\ batchtype = None
  /\ pc = "idle"
  /\ args = NoArgs
  /\ result = NoResult
  /\ ghost = [resubmit |-> 0, rounds |-> 0]
  /\ FreshLocals

BuildRunArgs ==
  /\ qcall = NoCall
  /\ \E job \in RunArgJobs, no_batch \in BOOLEAN, run_args \in RunArgLists :
       /\ qcall' = [op |-> "_build_run_args", job |-> job, no_batch |-> no_batch,
                    run_args |-> run_args]
       /\ qresult' = Ret(build_run_args(job, no_batch, run_args))
  /\ UNCHANGED <<catalog, svars>>

SpecRunArgs == InitRunArgs /\ [][BuildRunArgs]_vars

\* the whitelist of a job type, as a table
Whitelist(job, no_batch) ==
  { n \in Range(RunArgNames) :
      \/ n = "skip_pnl" /\ job \in {"case.run", "case.test"}
      \/ n = "set_continue_run" /\ job = "case.run"
      \/ n = "resubmit" /\ job = "case.st_archive" /\ no_batch
      \/ n = "submit_resubmits" /\ (job = "case.run" \/ (job = "case.st_archive" /\ ~no_batch)) }

FlagOf(n) ==
  CASE n = "skip_pnl" -> "--skip-preview-namelist"
    [] n = "set_continue_run" -> "--completion-sets-continue-run"
    [] n \in {"resubmit", "submit_resubmits"} -> "--resubmit"

\* C11: _build_run_args returns exactly the supplied arguments that are truthy
\* and on the whitelist of the job type, each once, with its value and its
\* command line flag, in the order they were passed; a job type outside
\* case.run, case.test and case.st_archive gets nothing.
C11_RunArgsFilteredByWhitelist ==
  qcall.op = "_build_run_args" =>
    LET given == qcall.run_args
        kept == { i \in 1..Len(given) :
                    given[i][2] /\ given[i][1] \in Whitelist(qcall.job, qcall.no_batch) }
        got == qresult.value
    IN /\ qresult.kind = "return"
       /\ Len(got) = Cardinality(kept)
       /\ \A k \in 1..Len(got) :
            \E i \in kept :
              /\ Cardinality({ m \in kept : m <= i }) = k
              /\ got[k] = [name |-> given[i][1], value |-> given[i][2],
                           flag |-> FlagOf(given[i][1])]
       /\ (qcall.job \notin {"case.run", "case.test", "case.st_archive"} => got = <<>>)

C11_Witness ==
  /\ qcall.op = "_build_run_args"
  /\ qcall.job = "case.run" /\ qcall.no_batch
  /\ qcall.run_args = << <<"skip_pnl", TRUE>>, <<"set_continue_run", FALSE>>,
                         <<"resubmit", TRUE>>, <<"submit_resubmits", TRUE>>,
                         <<"cthulu", TRUE>> >>
  /\ qresult.value = << [name |-> "skip_pnl", value |-> TRUE,
                         flag |-> "--skip-preview-namelist"],
                        [name |-> "submit_resubmits", value |-> TRUE,
                         flag |-> "--resubmit"] >>

\* the submissions made with a batch system
BatchMode == bstype # "none" /\ ~args.no_batch

\* the previous-job part of submission k: nothing, or the id some submission
\* of an earlier round returned
PrevParts(k) ==
  {<<>>} \cup { <<Val(subs[j].id)>> :
                  j \in { i \in 1..(k - 1) : subs[i].round < subs[k].round
                                              /\ subs[i].id # None } }

\* C12: in batch mode the dependency ids of a submission are, before the
\* previous-job id, the user's prerequisite when given and then, for every
\* declared dependency submitted earlier in this call, the id it returned
\* last; a declared dependency not yet submitted is left out, and no id of a
\* job that is neither declared nor the previous job is there.
C12_DeclaredDependencyIds ==
  (Called /\ BatchMode) =>
    \A k \in 1..Len(subs) :
      \E prev \in PrevParts(k) :
        /\ subs[k].dep_jobs = UserPart \o EarlierIds(Declared(subs[k].job), k) \o prev
        /\ \A j \in 1..(k - 1) :
             ( /\ subs[j].id # None
               /\ subs[j].job \notin Range(Declared(subs[k].job))
               /\ subs[j].id # prev )
             => Val(subs[j].id) \notin Range(subs[k].dep_jobs)

C12_Witness ==
  /\ pc = "returned"
  /\ bstype = "pbs" /\ ~args.no_batch /\ ~args.dry_run
  /\ args.user_prereq = Some(UserPrereq)
  /\ Len(subs) = 4
  /\ subs[1].job = "case.run" /\ subs[2].job = "case.st_archive"
  /\ Declared("case.run") = <<"case.st_archive">>
  /\ Declared("case.st_archive") = <<"case.run", "case.test">>
  /\ subs[1].dep_jobs = <<UserPrereq>>
  /\ subs[2].dep_jobs = <<UserPrereq, "101">>
  /\ subs[4].dep_jobs = <<UserPrereq, "103", "102">>

\* the planning of the call succeeded
Planned == pc \in {"submitting", "returned"}

\* the prereq expression of job i evaluates to true
PrereqTrue(i) ==
  LET v == eval(get_resolved_value(Val(workflow.prereq[AllJobs[i]]), CaseVars, casevals))
  IN v.kind = "return" /\ v.value

\* the jobs i of AllJobs with keep[i], in workflow order, each with its
\* declared dependency
PlanOf(keep) ==
  LET F[i \in 0..Len(AllJobs)] ==
        IF i = 0 THEN <<>>
        ELSE IF keep[i] THEN Append(F[i - 1], <<AllJobs[i], workflow.dependency[AllJobs[i]]>>)
        ELSE F[i - 1]
  IN F[Len(AllJobs)]

\* C13 as claimed: the eligible jobs are the jobs at or after the starting
\* job (the first job by default) that are the starting job, or have no
\* prereq, or whose prereq evaluates to true.
C13_Claim_StartingJobAlwaysEligible ==
  (Planned /\ bstype # "cobalt") =>
    jobs = PlanOf([i \in 1..Len(AllJobs) |->
                     /\ i >= StartIndex
                     /\ \/ i = StartIndex
                        \/ workflow.prereq[AllJobs[i]] = None
                        \/ PrereqTrue(i)])

\* C13 as amended: the eligible jobs are the jobs at or after the starting
\* job that are the job named by the caller, or have no prereq, or (in a dry
\* run) have the prereq "$BUILD_COMPLETE", or whose prereq evaluates to
\* true; the first job of a call that names no job is tested like the jobs
\* after it.  No job before the starting job is submitted.
C13_EligibleJobs ==
  (Planned /\ batchtype # Some("cobalt")) =>
    /\ jobs = PlanOf([i \in 1..Len(AllJobs) |->
                        /\ i >= StartIndex
                        /\ \/ args.job = Some(AllJobs[i])
                           \/ workflow.prereq[AllJobs[i]] = None
                           \/ (args.dry_run /\ workflow.prereq[AllJobs[i]] = Some(ExprBuild))
                           \/ PrereqTrue(i)])
    /\ \A k \in 1..Len(subs) : IndexOf(AllJobs, subs[k].job) >= StartIndex

C13_Witness ==
  /\ pc = "returned"
  /\ batchtype # Some("cobalt")
  /\ args.job = None /\ ~args.dry_run
  /\ workflow.prereq[AllJobs[1]] # None
  /\ ~PrereqTrue(1)
  /\ jobs = << <<"case.st_archive", workflow.dependency["case.st_archive"]>> >>
  /\ Len(subs) = 1 /\ subs[1].job = "case.st_archive"

\* job i is eligible: at or after the starting job and named by the caller,
\* or without prereq, or exempted in a dry run, or with a true prereq
Eligible(i) ==
  /\ i >= StartIndex
  /\ \/ args.job = Some(AllJobs[i])
     \/ workflow.prereq[AllJobs[i]] = None
     \/ (args.dry_run /\ workflow.prereq[AllJobs[i]] = Some(ExprBuild))
     \/ PrereqTrue(i)

\* C14 as claimed: under the Cobalt batch type every round submits exactly
\* one job, the first eligible job at or after the starting job.
C14_Claim_CobaltFirstEligible ==
  (Planned /\ batchtype = Some("cobalt") /\ \E i \in 1..Len(AllJobs) : Eligible(i)) =>
    LET first == CHOOSE i \in 1..Len(AllJobs) :
                   Eligible(i) /\ \A k \in 1..(i - 1) : ~Eligible(k)
    IN /\ jobs = << <<AllJobs[first], workflow.dependency[AllJobs[first]]>> >>
       /\ \A k \in 1..Len(subs) : subs[k].job = AllJobs[first] /\ subs[k].round = k - 1
       /\ pc = "returned" => Len(subs) = num_submit

\* the jobs a round submits: one at most under Cobalt, else every eligible job
PerRound ==
  IF batchtype = Some("cobalt") THEN (IF Len(jobs) > 0 THEN 1 ELSE 0) ELSE Len(jobs)

\* C15: with resubmit_immediate the call makes RESUBMIT + 1 rounds, one at
\* least, and RESUBMIT is 0 before the first submission; without it the call
\* makes one round and leaves RESUBMIT alone.  The number of rounds does not
\* change during the call, and a call that returns has made all of them, with
\* rounds times jobs-per-round submissions.
C15_RoundsFromResubmit ==
  [][ /\ (pc \in {"idle", "returned"} /\ pc' = "submitting") =>
           /\ subs' = <<>>
           /\ IF args'.resubmit_immediate
                THEN /\ num_submit' = (IF casevals.RESUBMIT + 1 >= 1
                                         THEN casevals.RESUBMIT + 1 ELSE 1)
                     /\ casevals'.RESUBMIT = 0
              ELSE /\ num_submit' = 1
                   /\ casevals'.RESUBMIT = casevals.RESUBMIT
      /\ pc = "submitting" =>
           /\ num_submit' = num_submit
           /\ casevals' = casevals
           /\ Len(subs) = round * PerRound + (IF pos > PerRound THEN PerRound ELSE pos - 1)
      /\ (pc = "submitting" /\ pc' = "returned") =>
           /\ round = num_submit
           /\ Len(subs) = num_submit * PerRound ]_vars

C15_Witness ==
  /\ pc = "returned"
  /\ args.resubmit_immediate /\ ~args.dry_run
  /\ batchtype # Some("cobalt")
  /\ num_submit = 2
  /\ Len(jobs) = 3
  /\ Len(subs) = 6
  /\ casevals.RESUBMIT = 0

(***************************************************************************)
(* set_job_defaults, for one (job, jsect) pair of batch_jobs.  The case    *)
(* gives total_tasks, tasks_per_node, num_nodes and TEST; user_walltime    *)
(* and force_queue are USER_REQUESTED_WALLTIME and USER_REQUESTED_QUEUE,   *)
(* None when not truthy.  The outcome is what is written to JOB_QUEUE and  *)
(* JOB_WALLCLOCK_TIME.                                                     *)
(***************************************************************************)
CaseLayout == [total_tasks |-> 2, tasks_per_node |-> 1, num_nodes |-> 2]
DefaultWalltime == <<0, 20, 0>>

JobSections == [task_count : {None, Some(1)}, walltime : {None, Some(<<1, 0, 0>>)}]
UserWalltimes == {None, Some(<<1, 0, 1>>)}
DefaultsJobs == {"case.run", "case.test", UnknownJob}

\* math.ceil(float(task_count)/float(tasks_per_node))
ceil_div(a, b) == (a + b - 1) \div b

\* task_count, node_count and walltime of the job
job_request(jsect, user_walltime, layout) ==
  [task_count |-> IF jsect.task_count # None THEN Val(jsect.task_count)
                  ELSE layout.total_tasks,
   node_count |-> IF jsect.task_count # None
                    THEN ceil_div(Val(jsect.task_count), layout.tasks_per_node)
                  ELSE layout.num_nodes,
   walltime |-> IF jsect.walltime # None /\ user_walltime = None THEN jsect.walltime
                ELSE user_walltime]

\* specs[3] of what get_queue_specs returned
walltimemax_of(got) ==
  IF got.kind = "fatal" THEN got
  ELSE IF got.value = None THEN Fatal("TypeError")
  ELSE Ret(Val(got.value).walltimemax)

\* get_queue_specs(queue)[3]
specs_walltimemax(cat, queue) == walltimemax_of(get_queue_specs(cat, queue))

\* the walltime after a retry without walltime found a queue
retry_walltime_always_adopted(test, new_walltime, walltime) == new_walltime

retry_walltime(test, new_walltime, walltime) == IF test THEN new_walltime ELSE walltime

\* "if force_queue:" up to "queue = force_queue", given what the two
\* queue_meets_spec calls and get_queue_specs(force_queue)[3] end in
forced_queue_must_meet(with, without, w, force_queue, walltime, test) ==
  IF with.kind = "fatal" THEN with
  ELSE IF with.value THEN Ret([queue |-> Some(force_queue), walltime |-> walltime])
  ELSE Fatal("User-requested queue does not meet requirements")

forced_queue(with, without, w, force_queue, walltime, test) ==
  IF with.kind = "fatal" THEN with
  ELSE IF with.value THEN Ret([queue |-> Some(force_queue), walltime |-> walltime])
  ELSE IF without.kind = "fatal" THEN without
  ELSE IF without.value /\ test
    THEN (IF w.kind = "fatal" THEN w
          ELSE Ret([queue |-> Some(force_queue), walltime |-> w.value]))
  ELSE Ret([queue |-> Some(force_queue), walltime |-> walltime])

\* the walltime override after the second select_best_queue found a queue
walltime_override(queue, new_walltime, walltime, test) ==
  IF new_walltime.kind = "fatal" THEN new_walltime
  ELSE IF new_walltime.value = None THEN Fatal("Should never make it here")
  ELSE Ret([queue |-> queue,
            walltime |-> retry_walltime(test, new_walltime.value, walltime)])

\* the else branch up to "if queue is None:", given what select_best_queue
\* ends in with the walltime (first) and without it (second)
best_queue(cat, first, second, walltime, test) ==
  IF first.kind = "fatal" THEN first
  ELSE IF first.value # None \/ walltime = None
    THEN Ret([queue |-> first.value, walltime |-> walltime])
  ELSE IF second.kind = "fatal" THEN second
  ELSE IF second.value = None THEN Ret([queue |-> None, walltime |-> walltime])
  ELSE walltime_override(second.value, specs_walltimemax(cat, Val(second.value)),
                         walltime, test)

\* "if queue is None:": the default queue and its walltimemax
fallback_walltime(queue, w) ==
  IF w.kind = "fatal" THEN w ELSE Ret([queue |-> Some(queue), walltime |-> w.value])

default_queue_fallback(cat, default_queue_node) ==
  IF default_queue_node.kind = "fatal" THEN default_queue_node
  ELSE fallback_walltime(default_queue_node.value.text,
                         specs_walltimemax(cat, default_queue_node.value.text))

default_fallback(cat, best) ==
  IF best.kind = "fatal" THEN best
  ELSE IF best.value.queue # None THEN best
  ELSE default_queue_fallback(cat, get_default_queue(cat))

\* "if walltime is None:": the walltimemax of the queue's specs, or of the
\* default queue when the queue is unknown
walltime_from_specs(specs, dq) ==
  IF specs.value = None
    THEN (IF dq.kind = "fatal" THEN dq ELSE Ret(dq.value.walltimemax))
  ELSE Ret(Val(specs.value).walltimemax)

\* the two set_value calls
written(queue, walltime, specs) ==
  IF walltime.kind = "fatal" THEN walltime
  ELSE Ret(Some([JOB_QUEUE |-> queue,
                 JOB_WALLCLOCK_TIME |-> IF walltime.value = None THEN DefaultWalltime
                                        ELSE Val(walltime.value),
                 ignore_type |-> (specs.value = None)]))

\* "specs = self.get_queue_specs(queue)" to the two set_value calls
persist_defaults(cat, queue, walltime, specs) ==
  IF specs.kind = "fatal" THEN specs
  ELSE IF walltime # None THEN written(queue, Ret(walltime), specs)
  ELSE written(queue, walltime_from_specs(specs, get_default_queue(cat)), specs)

persist_chosen(cat, chosen) ==
  IF chosen.kind = "fatal" THEN chosen
  ELSE persist_defaults(cat, Val(chosen.value.queue), chosen.value.walltime,
                        get_queue_specs(cat, Val(chosen.value.queue)))

choose_queue(cat, job, r, force_queue, test) ==
  IF force_queue # None
    THEN forced_queue(queue_meets_spec(cat, Val(force_queue), r.node_count, r.task_count,
                                       r.walltime, Some(job)),
                      queue_meets_spec(cat, Val(force_queue), r.node_count, r.task_count,
                                       None, Some(job)),
                      specs_walltimemax(cat, Val(force_queue)),
                      Val(force_queue), r.walltime, test)
  ELSE default_fallback(cat,
         best_queue(cat,
                    select_best_queue(cat, r.node_count, r.task_count, r.walltime, Some(job)),
                    select_best_queue(cat, r.node_count, r.task_count, None, Some(job)),
                    r.walltime, test))

set_job_defaults(cat, bt, job, jsect, user_walltime, force_queue, layout, test) ==
  IF bt = "none" THEN Ret(None)
  ELSE IF job \notin Range(AllJobs) THEN Ret(None)
  ELSE persist_chosen(cat, choose_queue(cat, job, job_request(jsect, user_walltime, layout),
                                        force_queue, test))

InitDefaults ==
  /\ \/ bstype = "pbs" /\ catalog \in Catalogs
     \/ bstype = "none" /\ catalog = <<>>
  /\ qcall = NoCall
  /\ qresult = Ret(None)
  /\ workflow = CHOOSE w \in Workflows : \A j \in DOMAIN w.prereq : w.prereq[j] = None
  /\ casevals \in [RESUBMIT : {0}, BUILD_COMPLETE : {FALSE}, TEST : BOOLEAN,
                   DOUT_S : {FALSE}, PROJECT_REQUIRED : {FALSE}]
  /\ batchtype = None
  /\ pc = "idle"
  /\ args = NoArgs
  /\ result = NoResult
  /\ ghost = [resubmit |-> 0, rounds |-> 0]
  /\ FreshLocals

SetJobDefaults ==
  /\ qcall = NoCall
  /\ batchtype' = IF batchtype = None THEN Some(bstype) ELSE batchtype
  /\ \E job \in DefaultsJobs, jsect \in JobSections, user_walltime \in UserWalltimes,
        force_queue \in {None, Some(QueueNames[1]), Some(UnknownQueue)} :
       /\ qcall' = [op |-> "set_job_defaults", job |-> job, jsect |-> jsect,
                    user_walltime |-> user_walltime, force_queue |-> force_queue]
       /\ qresult' = set_job_defaults(catalog, Val(batchtype'), job, jsect, user_walltime,
                                      force_queue, CaseLayout, casevals.TEST)
  /\ UNCHANGED <<catalog, bstype, workflow, casevals, pc, args, jobs, depid, jobcmds,
                 num_submit, round, pos, prev_job, batch_job_id, subs, launched, result,
                 ghost>>

SpecDefaults == InitDefaults /\ [][SetJobDefaults]_vars

\* a set_job_defaults call that reaches the choice of a queue
DefaultsCall ==
  qcall.op = "set_job_defaults" /\ bstype # "none" /\ qcall.job \in Range(AllJobs)

DefaultsReq == job_request(qcall.jsect, qcall.user_walltime, CaseLayout)

Best(walltime) ==
  select_best_queue(catalog, DefaultsReq.node_count, DefaultsReq.task_count, walltime,
                    Some(qcall.job))

ForcedMeets(walltime) ==
  LET m == queue_meets_spec(catalog, Val(qcall.force_queue), DefaultsReq.node_count,
                            DefaultsReq.task_count, walltime, Some(qcall.job))
  IN m.kind = "return" /\ m.value

Persisted == Val(qresult.value)

\* the first two cases of C16, which claim and code share: the queue found
\* with the walltime; else, when a walltime was asked for, the queue found
\* without it, with its walltimemax in test mode and the walltime asked for
\* otherwise.  The queue written is a catalog queue.
SelectedQueueCases ==
  /\ Persisted.JOB_QUEUE \in CatalogNames
  /\ Best(DefaultsReq.walltime).value # None =>
       Persisted.JOB_QUEUE = Val(Best(DefaultsReq.walltime).value)
  /\ ( /\ Best(DefaultsReq.walltime).value = None
       /\ DefaultsReq.walltime # None
       /\ Best(None).value # None ) =>
       /\ Persisted.JOB_QUEUE = Val(Best(None).value)
       /\ Persisted.JOB_WALLCLOCK_TIME =
            IF casevals.TEST THEN Val(NodeNamed(Val(Best(None).value)).walltimemax)
            ELSE Val(DefaultsReq.walltime)

NoQueueFound ==
  /\ Best(DefaultsReq.walltime).value = None
  /\ (DefaultsReq.walltime = None \/ Best(None).value = None)

\* C16 as claimed: ... and when no queue is found even without walltime the
\* queue is the default queue and the walltime is the default queue's
\* walltimemax.
C16_Claim_FallbackWalltimemax ==
  (DefaultsCall /\ qcall.force_queue = None /\ qresult.kind = "return") =>
    /\ SelectedQueueCases
    /\ NoQueueFound =>
         /\ Persisted.JOB_QUEUE = DefaultName
         /\ Some(Persisted.JOB_WALLCLOCK_TIME) = NodeNamed(DefaultName).walltimemax

\* C16 as amended: ... and when no queue is found even without walltime the
\* queue is the default queue and the walltime is the default queue's
\* walltimemax when it has one, else the default walltime 00:20:00; either way
\* the walltime asked for is replaced.
C16_QueueWithoutForce ==
  (DefaultsCall /\ qcall.force_queue = None /\ qresult.kind = "return") =>
    /\ SelectedQueueCases
    /\ NoQueueFound =>
         /\ Persisted.JOB_QUEUE = DefaultName
         /\ Persisted.JOB_WALLCLOCK_TIME =
              IF NodeNamed(DefaultName).walltimemax # None
                THEN Val(NodeNamed(DefaultName).walltimemax)
              ELSE DefaultWalltime

C16_Witness ==
  /\ DefaultsCall /\ qcall.force_queue = None /\ qresult.kind = "return"
  /\ DefaultsReq.walltime = Some(<<1, 0, 1>>)
  /\ NoQueueFound
  /\ NodeNamed(DefaultName).walltimemax = None
  /\ Persisted.JOB_QUEUE = DefaultName
  /\ Persisted.JOB_WALLCLOCK_TIME = DefaultWalltime

\* the walltime rule of C17: the walltime asked for is replaced by the forced
\* queue's walltimemax when the queue fails with the walltime, passes without
\* it and the case is a test, and kept otherwise
ForcedWalltimeRule ==
  DefaultsReq.walltime # None =>
    Persisted.JOB_WALLCLOCK_TIME =
      IF ~ForcedMeets(DefaultsReq.walltime) /\ ForcedMeets(None) /\ casevals.TEST
        THEN Val(NodeNamed(Val(qcall.force_queue)).walltimemax)
      ELSE Val(DefaultsReq.walltime)

C20_RetryQueueHasWalltimemax ==
  DefaultsCall =>
    /\ ~(qresult.kind = "fatal" /\ qresult.msg = "Should never make it here")
    /\ ( /\ DefaultsReq.walltime # None
         /\ Best(DefaultsReq.walltime) = Ret(None)
         /\ Best(None).value # None ) =>
         NodeNamed(Val(Best(None).value)).walltimemax # None

C20_Witness ==
  /\ DefaultsCall /\ qcall.force_queue = None
  /\ DefaultsReq.walltime # None
  /\ Best(DefaultsReq.walltime) = Ret(None)
  /\ Best(None).value # None
  /\ qresult.kind = "return"
  /\ casevals.TEST
  /\ Some(Persisted.JOB_WALLCLOCK_TIME) = NodeNamed(Val(Best(None).value)).walltimemax

(***************************************************************************)
(* _submit_single_job on its own, in batch mode and as a dry run, where it *)
(* returns the submit command it has built.  The settings of the batch     *)
(* system vary: those of the dependency clause in one family, those of the *)
(* rest of the command in another.                                         *)
(***************************************************************************)
BatchConfigs ==
  { [BatchConfig("pbs") EXCEPT !.depend_string = ds, !.depend_allow_string = das,
                               !.depend_separator = sep, !.batch_submit = sub] :
      ds \in {None, Some(<<"-W depend=afterok:", "jobid">>), Some(<<"-W depend=afterok">>)},
      das \in {None, Some(<<"-W depend=afterany:", "jobid">>), Some(<<"-W depend=afterany">>)},
      sep \in {None, Some(":")},
      sub \in {None, Some("qsub")} }
  \cup
  { [BatchConfig("pbs") EXCEPT !.command_flags = cf, !.batch_mail_flag = mf,
                               !.batch_mail_type_flag = mtf, !.batch_redirect = rd,
                               !.batch_env = env] :
      cf \in {None, Some("-q debug")},
      mf \in {None, Some("-M")},
      mtf \in {None, Some("-m"), Some("--mail-type")},
      rd \in {None, Some("<")},
      env \in {None, Some("-v")} }

DepJobLists == {None, Some(<<>>), Some(<<"101">>), Some(<<"101", "102">>)}

SingleJobArgs ==
  [job : Range(AllJobs), dep_jobs : DepJobLists, allow_fail : BOOLEAN,
   no_batch : {FALSE}, skip_pnl : BOOLEAN, mail_user : {None, Some("user@host")},
   mail_type : {None, Some(<<"begin", "end">>)},
   batch_args : {None, Some("-l place=scatter")}, dry_run : {TRUE},
   resubmit_immediate : BOOLEAN]

InitCommand ==
  /\ catalog = <<>>
  /\ qcall = NoCall
  /\ qresult = Ret(None)
  /\ bstype = "pbs"
  /\ workflow = CHOOSE w \in Workflows : \A j \in DOMAIN w.prereq : w.prereq[j] = None
  /\ casevals = [RESUBMIT |-> 0, BUILD_COMPLETE |-> FALSE, TEST |-> FALSE,
                 DOUT_S |-> FALSE, PROJECT_REQUIRED |-> FALSE]
  /\ batchtype = None
  /\ pc = "idle"
  /\ args = NoArgs
  /\ result = NoResult
  /\ ghost = [resubmit |-> 0, rounds |-> 0]
  /\ FreshLocals

SubmitSingleJob ==
  /\ qcall = NoCall
  /\ \E cfg \in BatchConfigs, a \in SingleJobArgs :
       /\ qcall' = [op |-> "_submit_single_job", cfg |-> cfg, a |-> a]
       /\ qresult' = build_submit_cmd(cfg, a.job, a.dep_jobs, a)
  /\ UNCHANGED <<catalog, svars>>

SpecCommand == InitCommand /\ [][SubmitSingleJob]_vars

SingleJobCall == qcall.op = "_submit_single_job"

HasDependencies == qcall.a.dep_jobs # None /\ Len(Val(qcall.a.dep_jobs)) > 0

DependencyErrors ==
  {"'depend_string' is not defined for this batch system",
   "depend_separator string not defined",
   "depend_string is missing jobid for prerequisite jobs"}

DependencyFatal == qresult.kind = "fatal" /\ qresult.msg \in DependencyErrors

\* what a depend string with the ids in place of jobid reads, for one or two ids
ClauseFrom(dep_string) ==
  LET ids == Val(qcall.a.dep_jobs)
      joined == IF Len(ids) = 1 THEN ids[1]
                ELSE ids[1] \o Val(qcall.cfg.depend_separator) \o ids[2]
  IN Val(dep_string)[1] \o joined

Unusable(dep_string) ==
  \/ dep_string = None
  \/ qcall.cfg.depend_separator = None
  \/ "jobid" \notin Range(Val(dep_string))

\* C18 as claimed: with dependencies the clause comes from depend_allow_string
\* when failed dependencies are allowed and from depend_string otherwise, and
\* the command is refused exactly when that string is missing, or the
\* separator is missing, or the string has no jobid; without dependencies
\* there is no clause and none of the settings is needed.
C18_Claim_SelectedStringRequired ==
  SingleJobCall =>
    LET selected == IF qcall.a.allow_fail THEN qcall.cfg.depend_allow_string
                    ELSE qcall.cfg.depend_string
        clause == depend_clause(qcall.cfg, qcall.a.dep_jobs, qcall.a.allow_fail)
    IN IF HasDependencies
         THEN /\ DependencyFatal <=> Unusable(selected)
              /\ ~Unusable(selected) => clause = Ret(Some(ClauseFrom(selected)))
       ELSE ~DependencyFatal /\ clause = Ret(None)

\* C18 as amended: as claimed, except that when failed dependencies are
\* allowed and depend_allow_string is not configured the clause comes from
\* depend_string, and the command is refused only when depend_string is
\* unusable as well.
C18_DependencyClause ==
  SingleJobCall =>
    LET selected == IF qcall.a.allow_fail /\ qcall.cfg.depend_allow_string # None
                      THEN qcall.cfg.depend_allow_string
                    ELSE qcall.cfg.depend_string
        clause == depend_clause(qcall.cfg, qcall.a.dep_jobs, qcall.a.allow_fail)
    IN IF HasDependencies
         THEN /\ DependencyFatal <=> Unusable(selected)
              /\ ~Unusable(selected) => clause = Ret(Some(ClauseFrom(selected)))
       ELSE ~DependencyFatal /\ clause = Ret(None)

C18_Witness ==
  /\ SingleJobCall
  /\ qcall.a.allow_fail
  /\ qcall.a.dep_jobs = Some(<<"101", "102">>)
  /\ qcall.cfg.depend_allow_string = None
  /\ qcall.cfg.depend_string = Some(<<"-W depend=afterok:", "jobid">>)
  /\ qcall.a.job = "case.test" /\ ~qcall.a.skip_pnl
  /\ qcall.a.batch_args = None /\ qcall.a.mail_user = None /\ qcall.a.mail_type = None
  /\ qresult = Ret("qsub -q regular -W depend=afterok:101:102 -v ARGS_FOR_SCRIPT='' .case.test")

\* the components of the command that are settings or arguments of the call
CmdFlags ==
  IF qcall.cfg.command_flags # None THEN qcall.cfg.command_flags
  ELSE Some(JoinWith(" ", qcall.cfg.submit_args))

CmdDependency == depend_clause(qcall.cfg, qcall.a.dep_jobs, qcall.a.allow_fail).value
CmdMailUser == mail_user_clause(qcall.cfg, qcall.a.mail_user)
CmdMailType == mail_type_clause(qcall.cfg, qcall.a.job, qcall.a.mail_type).value
CmdScript == Some(get_batch_script_for_job(qcall.a.job))
CmdRunArgs ==
  Some(build_run_args_str(qcall.cfg, qcall.a.job, FALSE,
                          << <<"skip_pnl", qcall.a.skip_pnl>>,
                             <<"set_continue_run", qcall.a.resubmit_immediate>>,
                             <<"submit_resubmits", ~qcall.a.resubmit_immediate>> >>))

\* C19 as claimed: the command is the submit executable, the submit flags,
\* the dependency clause, the mail-user flag, the mail-type flags, batch_args,
\* the redirection and the script, the unset ones left out.
C19_Claim_MailBeforeBatchArgs ==
  (SingleJobCall /\ qresult.kind = "return") =>
    qresult.value =
      JoinWith(" ", Present(<<qcall.cfg.batch_submit, CmdFlags, CmdDependency, CmdMailUser,
                              CmdMailType, qcall.a.batch_args, qcall.cfg.batch_redirect,
                              CmdScript>>))

\* C19 as amended: the command is the submit executable, the submit flags,
\* the dependency clause, batch_args, the mail-user flag, the mail-type flags
\* and then, when batch_env is set, the run arguments, the redirection and
\* the script, and when it is not set, the redirection, the script and the
\* run arguments; the unset ones are left out, the run arguments never are.
C19_CommandOrder ==
  (SingleJobCall /\ qresult.kind = "return") =>
    qresult.value =
      JoinWith(" ", Present(<<qcall.cfg.batch_submit, CmdFlags, CmdDependency,
                              qcall.a.batch_args, CmdMailUser, CmdMailType>>
                            \o (IF qcall.cfg.batch_env # None
                                  THEN <<CmdRunArgs, qcall.cfg.batch_redirect, CmdScript>>
                                ELSE <<qcall.cfg.batch_redirect, CmdScript, CmdRunArgs>>)))

C19_Witness ==
  /\ SingleJobCall
  /\ qcall.a.job = "case.run" /\ ~qcall.a.skip_pnl /\ ~qcall.a.resubmit_immediate
  /\ qcall.a.dep_jobs = Some(<<"101">>) /\ ~qcall.a.allow_fail
  /\ qcall.a.batch_args # None /\ qcall.a.mail_user # None /\ qcall.a.mail_type # None
  /\ qcall.cfg.command_flags # None
  /\ qcall.cfg.batch_env = None
  /\ qcall.cfg.batch_redirect = Some("<")
  /\ qcall.cfg.batch_mail_type_flag = Some("--mail-type")
  /\ qresult = Ret("qsub -q debug -W depend=afterok:101 -l place=scatter -M user@host"
                   \o " --mail-type b --mail-type e < .case.run --resubmit")

====
